---- MODULE Spec2Model ----
(***************************************************************************)
(* Model of the bookstore service (src/bookstore/main.go): four HTTP       *)
(* handlers over one MongoDB collection of Book documents.                 *)
(*                                                                         *)
(* Every handler runs in its own goroutine.  A handler is modelled in two  *)
(* steps: Recv (method check, form decoding, validation, construction of   *)
(* the store request) and Store (the one driver call and the response).    *)
(* The driver call is the only point where handlers touch shared state,    *)
(* so interleaving at this grain covers every interleaving of the code.    *)
(***************************************************************************)
EXTENDS Integers, Sequences, FiniteSets, TLC

VARIABLES books, objectIDCounter, inserted, req

vars == <<books, objectIDCounter, inserted, req>>

(***************************************************************************)
(* Bounds and constants                                                    *)
(***************************************************************************)
\* number of ObjectIDs the process may generate in a run
MaxIds == 2

\* length of the hex text of an ObjectID (primitive.ObjectIDFromHex)
HexLen == 24

StatusOK == 200
StatusBadRequest == 400
StatusMethodNotAllowed == 405
StatusInternalServerError == 500

Clients == {"c1", "c2"}
Methods == {"GET", "POST"}

NoID == -1

(***************************************************************************)
(* strconv.ParseFloat on texts, a text being a sequence of characters.     *)
(* The result is the decimal value mant * 10^exp with sign neg, in         *)
(* canonical form (no trailing zero in mant), which is how equal float64   *)
(* values of short decimal texts are identified.  Texts using an exponent, *)
(* a hex mantissa, "inf" or "nan" are outside the enumerated inputs.       *)
(***************************************************************************)
Digits == {"0", "1", "2", "3", "4", "5", "6", "7", "8", "9"}

DigitVal(ch) ==
    CASE ch = "0" -> 0 [] ch = "1" -> 1 [] ch = "2" -> 2 [] ch = "3" -> 3
      [] ch = "4" -> 4 [] ch = "5" -> 5 [] ch = "6" -> 6 [] ch = "7" -> 7
      [] ch = "8" -> 8 [] ch = "9" -> 9

ZeroCost == [neg |-> FALSE, mant |-> 0, exp |-> 0]

RECURSIVE Canon(_, _)
Canon(mant, exp) ==
    IF mant = 0 THEN [mant |-> 0, exp |-> 0]
    ELSE IF mant % 10 = 0 THEN Canon(mant \div 10, exp + 1)
    ELSE [mant |-> mant, exp |-> exp]

\* mantissa of the digits of s read left to right, the dot skipped
RECURSIVE Mantissa(_, _)
Mantissa(s, acc) ==
    IF s = <<>> THEN acc
    ELSE IF Head(s) = "." THEN Mantissa(Tail(s), acc)
    ELSE Mantissa(Tail(s), acc * 10 + DigitVal(Head(s)))

\* number of digits after the dot (0 when there is no dot)
FracDigits(s) ==
    LET dots == {i \in 1..Len(s) : s[i] = "."}
    IN IF dots = {} THEN 0 ELSE Len(s) - (CHOOSE i \in dots : TRUE)

\* variant: the sign is dropped
ParseFloatUnsigned(s) ==
    LET signed == s # <<>> /\ Head(s) \in {"+", "-"}
        body == IF signed THEN Tail(s) ELSE s
        ok == /\ \A i \in 1..Len(body) : body[i] \in Digits \cup {"."}
              /\ Cardinality({i \in 1..Len(body) : body[i] = "."}) <= 1
              /\ \E i \in 1..Len(body) : body[i] \in Digits
        c == IF ok THEN Canon(Mantissa(body, 0), -FracDigits(body))
             ELSE [mant |-> 0, exp |-> 0]
    IN [err |-> ~ok,
        val |-> [neg |-> FALSE, mant |-> c.mant, exp |-> c.exp]]

ParseFloat(s) ==
    LET signed == s # <<>> /\ Head(s) \in {"+", "-"}
        neg == signed /\ Head(s) = "-"
        body == IF signed THEN Tail(s) ELSE s
        ok == /\ \A i \in 1..Len(body) : body[i] \in Digits \cup {"."}
              /\ Cardinality({i \in 1..Len(body) : body[i] = "."}) <= 1
              /\ \E i \in 1..Len(body) : body[i] \in Digits
        c == IF ok THEN Canon(Mantissa(body, 0), -FracDigits(body))
             ELSE [mant |-> 0, exp |-> 0]
    IN [err |-> ~ok,
        val |-> [neg |-> ok /\ neg, mant |-> c.mant, exp |-> c.exp]]

Negative(cost) == cost.neg /\ cost.mant # 0

(***************************************************************************)
(* primitive.ObjectID, its hex text and primitive.ObjectIDFromHex.         *)
(* An ObjectID is modelled by the number its 12 bytes spell.               *)
(***************************************************************************)
HexDigits == <<"0", "1", "2", "3", "4", "5", "6", "7",
               "8", "9", "a", "b", "c", "d", "e", "f">>

IsHexDigit(ch) == \E k \in 1..16 : HexDigits[k] = ch

HexVal(ch) == (CHOOSE k \in 1..16 : HexDigits[k] = ch) - 1

RECURSIVE ToHex(_, _)
ToHex(n, k) ==
    IF k = 0 THEN <<>>
    ELSE Append(ToHex(n \div 16, k - 1), HexDigits[(n % 16) + 1])

\* ObjectID.Hex()
Hex(id) == ToHex(id, HexLen)

RECURSIVE HexDecode(_, _)
HexDecode(s, acc) ==
    IF s = <<>> THEN acc ELSE HexDecode(Tail(s), acc * 16 + HexVal(Head(s)))

ObjectIDFromHex(s) ==
    IF Len(s) # HexLen \/ \E i \in 1..Len(s) : ~IsHexDigit(s[i])
    THEN [err |-> TRUE, id |-> NoID]
    ELSE [err |-> FALSE, id |-> HexDecode(s, 0)]

(***************************************************************************)
(* Inputs                                                                  *)
(***************************************************************************)
BadHex == [i \in 1..HexLen |-> IF i = 1 THEN "g" ELSE "0"]
ShortHex == <<"0", "1">>

\* the ids 0..MaxIds-1 can be generated; MaxIds is well-formed and never present
IdTexts == {Hex(i) : i \in 0..MaxIds} \cup {<<>>, BadHex, ShortHex}

\* the name, author and cost fields of the forms sent
Payloads ==
    { [name |-> "Dune", author |-> "Herbert", cost |-> <<"1", "2", ".", "5", "0">>],
      [name |-> "Emma", author |-> "Austen", cost |-> <<"-", "3">>],
      [name |-> "Dune", author |-> "Austen", cost |-> <<"1", "2", ".", "5">>],
      [name |-> "Emma", author |-> "Herbert", cost |-> <<"a", "b", "c">>] }

Forms ==
    { [id |-> i, name |-> p.name, author |-> p.author, cost |-> p.cost] :
        i \in IdTexts, p \in Payloads }

CostTexts == {p.cost : p \in Payloads}
ValidCostTexts == {t \in CostTexts : ~ParseFloat(t).err}
ValidIdTexts == {t \in IdTexts : t # <<>> /\ ~ObjectIDFromHex(t).err}

NoForm == [id |-> <<>>, name |-> "", author |-> "", cost |-> <<>>]

(***************************************************************************)
(* Book documents and the collection (driver calls on the collection)      *)
(***************************************************************************)
Book(id, name, author, cost) ==
    [ID |-> id, Name |-> name, Author |-> author, Cost |-> cost]

\* variant: the insert writes the collection back from a stale, empty read
InsertOneLost(coll, book) == [err |-> FALSE, coll |-> {book}]

\* coll.InsertOne: the unique index on _id rejects a duplicate key
InsertOne(coll, book) ==
    IF \E b \in coll : b.ID = book.ID
    THEN [err |-> TRUE, coll |-> coll]
    ELSE [err |-> FALSE, coll |-> coll \cup {book}]

\* variant: the filter is empty, so any one document matches
DeleteOneAny(coll, objID) ==
    IF coll = {} THEN [DeletedCount |-> 0, coll |-> coll]
    ELSE LET b == CHOOSE x \in coll : TRUE
         IN [DeletedCount |-> 1, coll |-> coll \ {b}]

\* coll.DeleteOne(bson.M{"_id": objID})
DeleteOne(coll, objID) ==
    LET hit == {b \in coll : b.ID = objID}
    IN IF hit = {} THEN [DeletedCount |-> 0, coll |-> coll]
       ELSE LET b == CHOOSE x \in hit : TRUE
            IN [DeletedCount |-> 1, coll |-> coll \ {b}]

\* variant: the update is an upsert
UpdateOneUpsert(coll, objID, set) ==
    LET hit == {b \in coll : b.ID = objID}
    IN [MatchedCount |-> Cardinality(hit),
        coll |-> (coll \ hit) \cup {Book(objID, set.name, set.author, set.cost)}]

\* variant: the author is written by a later, second update that is lost
UpdateOnePartial(coll, objID, set) ==
    LET hit == {b \in coll : b.ID = objID}
    IN [MatchedCount |-> Cardinality(hit),
        coll |-> (coll \ hit) \cup
                 {Book(b.ID, set.name, b.Author, set.cost) : b \in hit}]

\* coll.UpdateOne(bson.M{"_id": objID}, bson.M{"$set": set}), no upsert
UpdateOne(coll, objID, set) ==
    LET hit == {b \in coll : b.ID = objID}
    IN IF hit = {} THEN [MatchedCount |-> 0, coll |-> coll]
       ELSE LET b == CHOOSE x \in hit : TRUE
            IN [MatchedCount |-> 1,
                coll |-> (coll \ {b}) \cup
                         {Book(b.ID, set.name, set.author, set.cost)}]

\* coll.Find(bson.M{}) drained by the cursor loop
getBooks == books

(***************************************************************************)
(* Requests                                                                *)
(***************************************************************************)
Idle == [pc |-> "idle", path |-> "", method |-> "", form |-> NoForm,
         objID |-> NoID, bookCost |-> ZeroCost,
         status |-> 0, body |-> "", page |-> {}, overlap |-> FALSE]

InFlight(c) == req[c].pc = "store"

Others(c) == Clients \ {c}

\* a new request on connection c: method, path and form as sent
Request(c, method, path, form) ==
    [Idle EXCEPT !.path = path, !.method = method, !.form = form,
                 !.overlap = \E d \in Others(c) : InFlight(d)]

\* req after connection c has taken request r to the state rnew; overlap
\* (history) marks the requests that were in flight at the same time
Arrive(c, rnew) ==
    [d \in Clients |->
        IF d = c THEN rnew
        ELSE IF InFlight(d) /\ rnew.pc = "store"
        THEN [req[d] EXCEPT !.overlap = TRUE]
        ELSE req[d]]

\* http.Error / fmt.Fprintf followed by return
Reply(r, status, body) ==
    [r EXCEPT !.pc = "done", !.status = status, !.body = body]

TypeOK ==
    /\ objectIDCounter \in 0..MaxIds
    /\ inserted \subseteq 0..MaxIds
    /\ \A b \in books : b.ID \in 0..MaxIds
    /\ \A c \in Clients : req[c].pc \in {"idle", "store", "done"}

\* the service has started on an empty collection
Init ==
    /\ books = {}
    /\ objectIDCounter = 0
    /\ inserted = {}
    /\ req = [c \in Clients |-> Idle]

Pass == [status |-> 0, body |-> ""]
Fail(status, body) == [status |-> status, body |-> body]

StoreOutcomes == {"ok", "failed", "timeout"}

\* whether the server applied the operation: a call that times out on the
\* client side may still have been applied
Applied(outcome) == outcome # "failed"

(***************************************************************************)
(* handleIndex                                                             *)
(***************************************************************************)
IndexCheck(method, form) ==
    IF method # "GET"
    THEN Fail(StatusMethodNotAllowed, "Method not allowed")
    ELSE Pass

handleIndexRecv(c, method, form) ==
    /\ req[c].pc = "idle"
    /\ LET r == Request(c, method, "/", form)
           chk == IndexCheck(method, form)
       IN req' = Arrive(c, IF chk.status # 0
                              THEN Reply(r, chk.status, chk.body)
                              ELSE [r EXCEPT !.pc = "store"])
    /\ UNCHANGED <<books, objectIDCounter, inserted>>

handleIndexStore(c, outcome) ==
    /\ InFlight(c) /\ req[c].path = "/"
    /\ req' = [req EXCEPT ![c] =
                 IF outcome = "ok"
                 THEN [Reply(@, StatusOK, "index.html") EXCEPT !.page = getBooks]
                 ELSE Reply(@, StatusInternalServerError, "Failed to get books")]
    /\ UNCHANGED <<books, objectIDCounter, inserted>>

(***************************************************************************)
(* handleSubmit                                                            *)
(***************************************************************************)
SubmitCheck(method, form) ==
    IF method # "POST"
    THEN Fail(StatusMethodNotAllowed, "Method not allowed")
    ELSE IF ParseFloat(form.cost).err
    THEN Fail(StatusBadRequest, "Invalid cost")
    ELSE Pass

\* variant: the counter is read before the increment of the call before it
\* is visible, so an id is handed out twice
NewObjectIDStale == IF objectIDCounter = 0 THEN 0 ELSE objectIDCounter - 1

\* primitive.NewObjectID(): the process-wide atomic counter
NewObjectID == objectIDCounter

NewBook(id, name, author, cost) == Book(id, name, author, cost)

handleSubmitRecv(c, method, form) ==
    /\ req[c].pc = "idle"
    /\ LET r == Request(c, method, "/submit", form)
           chk == SubmitCheck(method, form)
       IN IF chk.status # 0
          THEN /\ req' = Arrive(c, Reply(r, chk.status, chk.body))
               /\ UNCHANGED objectIDCounter
          ELSE /\ objectIDCounter < MaxIds
               /\ req' = Arrive(c, [r EXCEPT !.pc = "store",
                                             !.objID = NewObjectID,
                                             !.bookCost = ParseFloat(form.cost).val])
               /\ objectIDCounter' = objectIDCounter + 1
    /\ UNCHANGED <<books, inserted>>

handleSubmitStore(c, outcome) ==
    /\ InFlight(c) /\ req[c].path = "/submit"
    /\ LET r == req[c]
           book == NewBook(r.objID, r.form.name, r.form.author, r.bookCost)
           res == InsertOne(books, book)
       IN /\ books' = IF Applied(outcome) THEN res.coll ELSE books
          /\ inserted' = IF Applied(outcome) /\ ~res.err
                         THEN inserted \cup {book.ID} ELSE inserted
          /\ req' = [req EXCEPT ![c] =
                       IF outcome = "ok" /\ ~res.err
                       THEN Reply(r, StatusOK, "Book added successfully!")
                       ELSE Reply(r, StatusInternalServerError,
                                  "Failed to insert book")]
    /\ UNCHANGED objectIDCounter

(***************************************************************************)
(* handleDelete                                                            *)
(***************************************************************************)
\* variant: the form is decoded before the method is looked at
DeleteCheckFormFirst(method, form) ==
    IF form.id = <<>>
    THEN Fail(StatusBadRequest, "Invalid book ID")
    ELSE IF ObjectIDFromHex(form.id).err
    THEN Fail(StatusBadRequest, "Invalid book ID")
    ELSE IF method # "POST"
    THEN Fail(StatusMethodNotAllowed, "Method not allowed")
    ELSE Pass

DeleteCheck(method, form) ==
    IF method # "POST"
    THEN Fail(StatusMethodNotAllowed, "Method not allowed")
    ELSE IF form.id = <<>>
    THEN Fail(StatusBadRequest, "Invalid book ID")
    ELSE IF ObjectIDFromHex(form.id).err
    THEN Fail(StatusBadRequest, "Invalid book ID")
    ELSE Pass

handleDeleteRecv(c, method, form) ==
    /\ req[c].pc = "idle"
    /\ LET r == Request(c, method, "/delete", form)
           chk == DeleteCheck(method, form)
       IN req' = Arrive(c, IF chk.status # 0
                              THEN Reply(r, chk.status, chk.body)
                              ELSE [r EXCEPT !.pc = "store",
                                             !.objID = ObjectIDFromHex(form.id).id])
    /\ UNCHANGED <<books, objectIDCounter, inserted>>

\* variant: DeletedCount is not looked at
DeleteReplyNoCount(r, outcome, result) ==
    IF outcome # "ok"
    THEN Reply(r, StatusInternalServerError, "Failed to delete book")
    ELSE Reply(r, StatusOK, "Book deleted successfully!")

DeleteReply(r, outcome, result) ==
    IF outcome # "ok"
    THEN Reply(r, StatusInternalServerError, "Failed to delete book")
    ELSE IF result.DeletedCount = 0
    THEN Reply(r, StatusOK, "Book not found!")
    ELSE Reply(r, StatusOK, "Book deleted successfully!")

handleDeleteStore(c, outcome) ==
    /\ InFlight(c) /\ req[c].path = "/delete"
    /\ LET r == req[c]
           result == DeleteOne(books, r.objID)
       IN /\ books' = IF Applied(outcome) THEN result.coll ELSE books
          /\ req' = [req EXCEPT ![c] = DeleteReply(r, outcome, result)]
    /\ UNCHANGED <<objectIDCounter, inserted>>

(***************************************************************************)
(* handleModify                                                            *)
(***************************************************************************)
\* variant: the error of the cost conversion is ignored
ModifyCheckNoCost(method, form) ==
    IF method # "POST"
    THEN Fail(StatusMethodNotAllowed, "Method not allowed")
    ELSE IF form.id = <<>>
    THEN Fail(StatusBadRequest, "Invalid book ID")
    ELSE IF ObjectIDFromHex(form.id).err
    THEN Fail(StatusBadRequest, "Invalid book ID")
    ELSE Pass

ModifyCheck(method, form) ==
    IF method # "POST"
    THEN Fail(StatusMethodNotAllowed, "Method not allowed")
    ELSE IF form.id = <<>>
    THEN Fail(StatusBadRequest, "Invalid book ID")
    ELSE IF ObjectIDFromHex(form.id).err
    THEN Fail(StatusBadRequest, "Invalid book ID")
    ELSE IF ParseFloat(form.cost).err
    THEN Fail(StatusBadRequest, "Invalid cost")
    ELSE Pass

handleModifyRecv(c, method, form) ==
    /\ req[c].pc = "idle"
    /\ LET r == Request(c, method, "/modify", form)
           chk == ModifyCheck(method, form)
       IN req' = Arrive(c, IF chk.status # 0
                              THEN Reply(r, chk.status, chk.body)
                              ELSE [r EXCEPT !.pc = "store",
                                             !.objID = ObjectIDFromHex(form.id).id,
                                             !.bookCost = ParseFloat(form.cost).val])
    /\ UNCHANGED <<books, objectIDCounter, inserted>>

\* variant: name and author change places
SetDocSwapped(name, author, bookCost) ==
    [name |-> author, author |-> name, cost |-> bookCost]

\* the "$set" document of the update
SetDoc(name, author, bookCost) ==
    [name |-> name, author |-> author, cost |-> bookCost]

ModifyReply(r, outcome, result) ==
    IF outcome # "ok"
    THEN Reply(r, StatusInternalServerError, "Failed to update book")
    ELSE Reply(r, StatusOK, "Book modified successfully!")

handleModifyStore(c, outcome) ==
    /\ InFlight(c) /\ req[c].path = "/modify"
    /\ LET r == req[c]
           update == SetDoc(r.form.name, r.form.author, r.bookCost)
           result == UpdateOne(books, r.objID, update)
       IN /\ books' = IF Applied(outcome) THEN result.coll ELSE books
          /\ req' = [req EXCEPT ![c] = ModifyReply(r, outcome, result)]
    /\ UNCHANGED <<objectIDCounter, inserted>>

(***************************************************************************)
(* The handler has returned and the response is with the client: the       *)
(* connection takes the next request.                                      *)
(***************************************************************************)
Finish(c) ==
    /\ req[c].pc = "done"
    /\ req' = [req EXCEPT ![c] = Idle]
    /\ UNCHANGED <<books, objectIDCounter, inserted>>

(***************************************************************************)
(* Specifications                                                          *)
(***************************************************************************)
\* one connection, any request
Next ==
    \/ \E m \in Methods, f \in Forms : handleIndexRecv("c1", m, f)
    \/ \E o \in StoreOutcomes : handleIndexStore("c1", o)
    \/ \E m \in Methods, f \in Forms : handleSubmitRecv("c1", m, f)
    \/ \E o \in StoreOutcomes : handleSubmitStore("c1", o)
    \/ \E m \in Methods, f \in Forms : handleDeleteRecv("c1", m, f)
    \/ \E o \in StoreOutcomes : handleDeleteStore("c1", o)
    \/ \E m \in Methods, f \in Forms : handleModifyRecv("c1", m, f)
    \/ \E o \in StoreOutcomes : handleModifyStore("c1", o)
    \/ Finish("c1")

Spec == Init /\ [][Next]_vars

\* two payloads that differ in every field
PairForms ==
    {f \in Forms :
        \/ f.name = "Dune" /\ f.author = "Herbert"
           /\ f.cost = <<"1", "2", ".", "5", "0">>
        \/ f.name = "Emma" /\ f.author = "Austen" /\ f.cost = <<"-", "3">>}

SubmitForms == {f \in PairForms : f.id = <<>>}
ModifyForms == {f \in PairForms : f.id \in ValidIdTexts}

\* concurrent creates with valid payloads, and lists
NextCreate ==
    \/ \E c \in Clients, f \in SubmitForms : handleSubmitRecv(c, "POST", f)
    \/ \E c \in Clients, o \in StoreOutcomes : handleSubmitStore(c, o)
    \/ \E c \in Clients : handleIndexRecv(c, "GET", NoForm)
    \/ \E c \in Clients, o \in StoreOutcomes : handleIndexStore(c, o)
    \/ \E c \in Clients : Finish(c)

SpecCreate == Init /\ [][NextCreate]_vars

\* concurrent updates with valid payloads, of records created before or meanwhile
NextModify ==
    \/ \E c \in Clients, f \in SubmitForms : handleSubmitRecv(c, "POST", f)
    \/ \E c \in Clients, o \in StoreOutcomes : handleSubmitStore(c, o)
    \/ \E c \in Clients, f \in ModifyForms : handleModifyRecv(c, "POST", f)
    \/ \E c \in Clients, o \in StoreOutcomes : handleModifyStore(c, o)
    \/ \E c \in Clients : Finish(c)

SpecModify == Init /\ [][NextModify]_vars

(***************************************************************************)
(* Vocabulary of the properties                                            *)
(***************************************************************************)
IDs(coll) == {b.ID : b \in coll}

RecordOf(coll, id) == CHOOSE b \in coll : b.ID = id

\* a request arrives on connection c in this step
RecvStep(c) == req[c].pc = "idle" /\ req'[c].pc # "idle"

\* the handler of path makes its driver call and answers in this step
StoreStep(c, path) ==
    req[c].pc = "store" /\ req[c].path = path /\ req'[c].pc = "done"

Answered(c, path, status) ==
    req[c].pc = "done" /\ req[c].path = path /\ req[c].status = status

\* the value each cost text of the inputs denotes, written out by hand
Denotes(text) ==
    CASE text = <<"1", "2", ".", "5", "0">> -> [neg |-> FALSE, mant |-> 125, exp |-> -1]
      [] text = <<"1", "2", ".", "5">> -> [neg |-> FALSE, mant |-> 125, exp |-> -1]
      [] text = <<"-", "3">> -> [neg |-> TRUE, mant |-> 3, exp |-> 0]

NotANumber == {<<"a", "b", "c">>}
MalformedIds == {BadHex, ShortHex}

Submitted(r) == Book(r.objID, r.form.name, r.form.author, Denotes(r.form.cost))

RequiredMethod(path) == IF path = "/" THEN "GET" ELSE "POST"

(***************************************************************************)
(* C1                                                                      *)
(***************************************************************************)
\* C1: a create whose cost parses and whose insert succeeds adds exactly the
\* record (fresh id, submitted name, submitted author, parsed cost); the
\* record is in the result of a list made next; its id is that of no record
\* created before, deleted ones included.  (A list that succeeds returns
\* the collection as it is.)
C1_CreateAddsFreshRecord ==
    [][\A c \in Clients :
         /\ StoreStep(c, "/submit") /\ req'[c].status = StatusOK =>
               LET b == Submitted(req[c])
               IN /\ b.ID \notin inserted
                  /\ b.ID \notin IDs(books)
                  /\ books' = books \cup {b}
                  /\ b \in getBooks'
                  /\ req'[c].body = "Book added successfully!"
         /\ StoreStep(c, "/") /\ req'[c].status = StatusOK =>
               req'[c].page = books /\ books' = books]_vars

\* a second create has succeeded after the first record was deleted
C1_Witness ==
    /\ Answered("c1", "/submit", StatusOK)
    /\ Cardinality(inserted) = 2
    /\ books = {Submitted(req["c1"])}
    /\ req["c1"].form.cost = <<"1", "2", ".", "5", "0">>

(***************************************************************************)
(* C2                                                                      *)
(***************************************************************************)
DeletedExactly(c) ==
    /\ books' = books \ {RecordOf(books, req[c].objID)}
    /\ Cardinality(books') = Cardinality(books) - 1
    /\ req'[c].status = StatusOK
    /\ req'[c].body = "Book deleted successfully!"

NotFoundNoChange(c) ==
    /\ books' = books
    /\ req'[c].status = StatusOK
    /\ req'[c].body = "Book not found!"

\* C2 as stated: a delete of a present id removes exactly that record and
\* answers 'deleted'; a delete of the id again, no create between, answers
\* 'not found' and changes nothing.
C2_Original ==
    [][\A c \in Clients :
         StoreStep(c, "/delete") =>
            IF req[c].objID \in IDs(books) THEN DeletedExactly(c)
            ELSE NotFoundNoChange(c)]_vars

\* C2 amended: the same, for a delete whose driver call returns no error.
\* An id that is absent stays absent until a create inserts it, so the
\* delete that follows a successful one finds no record.
C2_DeleteThenNotFound ==
    [][/\ \A c \in Clients :
            StoreStep(c, "/delete") /\ req'[c].status # StatusInternalServerError =>
               IF req[c].objID \in IDs(books)
               THEN DeletedExactly(c) /\ req[c].objID \notin IDs(books')
               ELSE NotFoundNoChange(c)
       /\ (\A c \in Clients : ~StoreStep(c, "/submit")) =>
            IDs(books') \subseteq IDs(books)]_vars

\* the delete of an id that was created and is gone answers 'not found',
\* another record being still there
C2_Witness ==
    /\ Answered("c1", "/delete", StatusOK)
    /\ req["c1"].body = "Book not found!"
    /\ req["c1"].objID \in inserted
    /\ req["c1"].objID \notin IDs(books)
    /\ books # {}

(***************************************************************************)
(* C3                                                                      *)
(***************************************************************************)
\* C3 as stated: a delete with a well-formed id that matches no record is
\* never answered with an error: status 200, 'not found', collection same.
C3_Original ==
    [][\A c \in Clients :
         StoreStep(c, "/delete") /\ req[c].objID \notin IDs(books) =>
            NotFoundNoChange(c)]_vars

\* C3 amended: such a delete leaves the collection the same, and unless the
\* driver call itself fails (status 500) it answers 200 and 'not found'.
C3_DeleteAbsent ==
    [][\A c \in Clients :
         StoreStep(c, "/delete") /\ req[c].objID \notin IDs(books) =>
            /\ books' = books
            /\ Cardinality(books') = Cardinality(books)
            /\ req'[c].status \in {StatusOK, StatusInternalServerError}
            /\ req'[c].status = StatusOK => req'[c].body = "Book not found!"]_vars

C3_Witness ==
    /\ Answered("c1", "/delete", StatusOK)
    /\ req["c1"].body = "Book not found!"
    /\ req["c1"].form.id = Hex(MaxIds)
    /\ req["c1"].objID \notin inserted
    /\ books # {}

(***************************************************************************)
(* C4                                                                      *)
(***************************************************************************)
Overwritten(c) ==
    LET old == RecordOf(books, req[c].objID)
        new == Submitted(req[c])
    IN /\ new.ID = old.ID
       /\ books' = (books \ {old}) \cup {new}
       /\ Cardinality(books') = Cardinality(books)
       /\ new \in getBooks'

\* C4 as stated: an update with the id of an existing record and a cost that
\* parses overwrites name, author and cost of that record and nothing else.
C4_Original ==
    [][\A c \in Clients :
         StoreStep(c, "/modify") /\ req[c].objID \in IDs(books) =>
            Overwritten(c)]_vars

\* C4 amended: the same, for an update whose driver call returns no error.
C4_UpdateOverwrites ==
    [][\A c \in Clients :
         /\ StoreStep(c, "/modify")
         /\ req[c].objID \in IDs(books)
         /\ req'[c].status # StatusInternalServerError
         => Overwritten(c)]_vars

\* an update has replaced all three fields of one of two records
C4_Witness ==
    /\ Answered("c1", "/modify", StatusOK)
    /\ Cardinality(books) = 2
    /\ Submitted(req["c1"]) \in books
    /\ \A b \in books : b.Name = "Emma" /\ b.Author = "Austen" /\ b.Cost.neg
    /\ inserted = IDs(books)

(***************************************************************************)
(* C5                                                                      *)
(***************************************************************************)
FailsValidation(r) ==
    /\ r.method = "POST"
    /\ \/ r.path \in {"/submit", "/modify"} /\ r.form.cost \in NotANumber
       \/ r.path \in {"/delete", "/modify"}
          /\ (r.form.id = <<>> \/ r.form.id \in MalformedIds)

\* C5: a POST to /submit or /modify whose cost is no number, and a POST to
\* /delete or /modify whose id is empty or malformed, is answered 400 at
\* once: the handler makes no driver call and the collection is unchanged.
C5_ValidationShortCircuits ==
    [][\A c \in Clients :
         RecvStep(c) /\ FailsValidation(req'[c]) =>
            /\ req'[c].pc = "done"
            /\ req'[c].status = StatusBadRequest
            /\ books' = books
            /\ objectIDCounter' = objectIDCounter]_vars

\* an update of an existing record with a cost that is no number is refused
C5_Witness ==
    /\ Answered("c1", "/modify", StatusBadRequest)
    /\ req["c1"].form.cost \in NotANumber
    /\ req["c1"].form.id = Hex(0)
    /\ 0 \in IDs(books)

(***************************************************************************)
(* C6                                                                      *)
(***************************************************************************)
\* C6 as stated: every record ever present has a non-negative cost.
C6_Original == \A b \in books : ~Negative(b.Cost)

\* C6 amended: every record ever present has the cost that the cost text of
\* the create or update that wrote it denotes, sign included: a text that
\* denotes a negative number puts that negative cost into storage, and only
\* a text that is no number is kept from storage.
C6_CostIsParsedCost ==
    /\ [][\A c \in Clients :
            /\ StoreStep(c, "/submit") \/ StoreStep(c, "/modify")
            /\ books' # books
            => /\ req[c].form.cost \notin NotANumber
               /\ req[c].objID \in IDs(books')
               /\ RecordOf(books', req[c].objID).Cost = Denotes(req[c].form.cost)]_vars
    /\ [](\A b \in books : \E t \in CostTexts \ NotANumber : b.Cost = Denotes(t))

\* a create with the cost text -3 has stored a negative cost
C6_Witness ==
    /\ Answered("c1", "/submit", StatusOK)
    /\ req["c1"].form.cost = <<"-", "3">>
    /\ \E b \in books : b.ID = req["c1"].objID /\ Negative(b.Cost)

(***************************************************************************)
(* C7                                                                      *)
(***************************************************************************)
\* C7: under SpecCreate (creates with valid payloads and lists, on two
\* connections, in any interleaving) every create request has an id of its
\* own, a create whose insert succeeds adds its record and no step removes
\* or changes one, so every record created is in the collection a list
\* returns afterwards.
C7_ConcurrentCreates ==
    /\ [][/\ books \subseteq books'
          /\ \A c \in Clients :
                StoreStep(c, "/submit") /\ req'[c].status = StatusOK =>
                   /\ req[c].objID \notin IDs(books)
                   /\ books' = books \cup {Submitted(req[c])}
          /\ \A c \in Clients :
                StoreStep(c, "/") /\ req'[c].status = StatusOK =>
                   /\ req'[c].page = books
                   /\ inserted \subseteq IDs(req'[c].page)]_vars
    /\ [](/\ \A b1, b2 \in books : b1.ID = b2.ID => b1 = b2
          /\ \A c \in Clients : \A d \in Others(c) :
                /\ req[c].path = "/submit" /\ req[c].pc \in {"store", "done"}
                /\ req[d].path = "/submit" /\ req[d].pc \in {"store", "done"}
                => req[c].objID # req[d].objID
          /\ \A c \in Clients :
                Answered(c, "/submit", StatusOK) => Submitted(req[c]) \in getBooks)

\* two creates that were in flight together have both succeeded and both
\* records are there
C7_Witness ==
    /\ \A c \in Clients : Answered(c, "/submit", StatusOK) /\ req[c].overlap
    /\ req["c1"].form # req["c2"].form
    /\ books = {Submitted(req["c1"]), Submitted(req["c2"])}
    /\ Cardinality(books) = 2

(***************************************************************************)
(* C8                                                                      *)
(***************************************************************************)
\* C8: a request whose method is not the one its path requires is answered
\* 405 at once, whatever its form holds (also a form that would fail
\* validation): no driver call, no id generated, collection unchanged.
C8_WrongMethod ==
    [][\A c \in Clients :
         RecvStep(c) /\ req'[c].method # RequiredMethod(req'[c].path) =>
            /\ req'[c].pc = "done"
            /\ req'[c].status = StatusMethodNotAllowed
            /\ books' = books
            /\ objectIDCounter' = objectIDCounter]_vars

\* a GET of /delete with an empty id is answered 405, not 400
C8_Witness ==
    /\ Answered("c1", "/delete", StatusMethodNotAllowed)
    /\ req["c1"].method = "GET"
    /\ req["c1"].form.id = <<>>
    /\ books # {}

(***************************************************************************)
(* C9                                                                      *)
(***************************************************************************)
Modified(c) ==
    /\ req'[c].status = StatusOK
    /\ req'[c].body = "Book modified successfully!"

\* C9 as stated: an update with a well-formed id that matches no record is
\* answered 'modified' like any other and leaves the collection unchanged.
C9_Original ==
    [][\A c \in Clients :
         StoreStep(c, "/modify") /\ req[c].objID \notin IDs(books) =>
            Modified(c) /\ books' = books]_vars

\* C9 amended: such an update leaves the collection unchanged, and unless
\* the driver call itself fails (status 500) it is answered 200 and
\* 'modified', the answer of an update of an existing record.
C9_UpdateAbsent ==
    [][\A c \in Clients :
         StoreStep(c, "/modify") =>
            /\ req'[c].status # StatusInternalServerError => Modified(c)
            /\ req[c].objID \notin IDs(books) => books' = books]_vars

C9_Witness ==
    /\ Answered("c1", "/modify", StatusOK)
    /\ req["c1"].body = "Book modified successfully!"
    /\ req["c1"].form.id = Hex(MaxIds)
    /\ req["c1"].objID \notin IDs(books)
    /\ books # {}

(***************************************************************************)
(* C10                                                                     *)
(***************************************************************************)
SameTarget(c, d) ==
    /\ req[d].path = "/modify" /\ req[d].pc \in {"store", "done"}
    /\ req[c].path = "/modify" /\ req[c].pc \in {"store", "done"}
    /\ req[d].objID = req[c].objID

\* C10: under SpecModify (creates and updates with valid payloads on two
\* connections, in any interleaving), when two updates aim at the same
\* existing id, each successful driver call leaves the record with the
\* whole triple of the request that made it, the id and all other records
\* as they were; so once both have succeeded the record is the triple of
\* one of them, the one applied last.
C10_LastWriteWins ==
    /\ [][\A c \in Clients : \A d \in Others(c) :
            /\ StoreStep(c, "/modify") /\ req'[c].status = StatusOK
            /\ SameTarget(c, d)
            /\ req[c].objID \in IDs(books)
            => Overwritten(c)]_vars
    /\ [](\A c \in Clients : \A d \in Others(c) :
            /\ Answered(c, "/modify", StatusOK)
            /\ Answered(d, "/modify", StatusOK)
            /\ SameTarget(c, d)
            /\ req[c].objID \in IDs(books)
            => RecordOf(books, req[c].objID) \in
                  {Submitted(req[c]), Submitted(req[d])})

\* two updates of one record with different triples were in flight
\* together and both succeeded; the record is the triple of c1
C10_Witness ==
    /\ \A c \in Clients : Answered(c, "/modify", StatusOK) /\ req[c].overlap
    /\ SameTarget("c1", "c2")
    /\ req["c1"].form.name # req["c2"].form.name
    /\ Submitted(req["c1"]) \in books

====
